---- MODULE Spec2Model ----
(***************************************************************************)
(* A model of the two oscillators of pyo-oscillators:                      *)
(*   BrkPntOsc (src/brkpntosc.py) and TriOsc (src/triosc.py).              *)
(*                                                                         *)
(* One oscillator instance is under test at a time (kind).  Signal values  *)
(* are exact rationals <<numerator, denominator>>; the phasor ramp, the    *)
(* phase offset and the breakpoint live on a grid of N = 2*G points per    *)
(* cycle, so 1/2 is always a grid point.  A division by zero in the signal *)
(* graph yields Undef, and everything computed from Undef is Undef.        *)
(***************************************************************************)
EXTENDS Integers, Sequences, FiniteSets, TLC

\* ------------------------------------------------------------------ bounds
\* Half the number of grid points of one phasor cycle.
G == 4

\* Grid points per cycle: phasor value k stands for k/N.
N == 2 * G

\* ------------------------------------------------------- rational numbers
RECURSIVE GCD(_, _)
GCD(a, b) == IF b = 0 THEN a ELSE GCD(b, a % b)

Abs(a) == IF a < 0 THEN -a ELSE a

\* The value of a division by zero (IEEE inf or NaN: no defined number).
Undef == <<0, 0>>

IsDef(x) == x[2] # 0

RNorm(n, d) ==
    IF d = 0 THEN Undef
    ELSE LET g == GCD(Abs(n), Abs(d))
             s == IF d < 0 THEN -1 ELSE 1
         IN  <<(s * n) \div g, (s * d) \div g>>

Zero == <<0, 1>>
One == <<1, 1>>
MinusOne == <<-1, 1>>
Half == <<1, 2>>

RInt(k) == <<k, 1>>

RAdd(x, y) ==
    IF IsDef(x) /\ IsDef(y) THEN RNorm(x[1] * y[2] + y[1] * x[2], x[2] * y[2])
    ELSE Undef

RSub(x, y) ==
    IF IsDef(x) /\ IsDef(y) THEN RNorm(x[1] * y[2] - y[1] * x[2], x[2] * y[2])
    ELSE Undef

RMul(x, y) ==
    IF IsDef(x) /\ IsDef(y) THEN RNorm(x[1] * y[1], x[2] * y[2])
    ELSE Undef

RDiv(x, y) ==
    IF IsDef(x) /\ IsDef(y) /\ y[1] # 0 THEN RNorm(x[1] * y[2], x[2] * y[1])
    ELSE Undef

\* Order on defined rationals; any comparison with Undef is false.
RLess(x, y) == IsDef(x) /\ IsDef(y) /\ x[1] * y[2] < y[1] * x[2]

RLeq(x, y) == IsDef(x) /\ IsDef(y) /\ x[1] * y[2] <= y[1] * x[2]

\* The comparison signals: a 0/1 mask.
MaskLt(x, y) == IF RLess(x, y) THEN One ELSE Zero

MaskGe(x, y) == IF RLeq(y, x) THEN One ELSE Zero

RMin(x, y) ==
    IF IsDef(x) /\ IsDef(y) THEN (IF RLeq(x, y) THEN x ELSE y) ELSE Undef

\* ------------------------------------------------ arguments and objects
\* An argument is a float (sig = "") or a caller's PyoObject (sig = "lfo").
Const(v) == [sig |-> "", val |-> v]

Lfo == [sig |-> "lfo", val |-> 0]

\* Frequencies, in grid steps of the ramp per processed sample.
FreqVals == {-1, 2}

\* Phase offsets, in grid points (k stands for k/N of a cycle).
PhaseVals == {0, 1, G}

\* Breakpoints, in grid points: the documented range "From 0 to 1", both ends
\* included.
BrkVals == 0 .. N

\* The values the caller's lfo signal can output.
LfoVals == {1, G}

FreqArgs == {Const(v) : v \in FreqVals} \cup {Lfo}

PhaseArgs == {Const(v) : v \in PhaseVals} \cup {Lfo}

BrkArgs == {Const(v) : v \in BrkVals} \cup {Lfo}

Durs == {0, 1}

Delays == {0, 1}

Chnls == {0, 1}

Incs == {1}

\* An object's activation: what it was last told, and with which timing.
Activation(mode, dur, delay) == [mode |-> mode, dur |-> dur, delay |-> delay]

\* Every pyo object computes from the moment it is created.
Created == Activation("play", 0, 0)

\* The signal objects TriOsc.__init__ builds; "_neg" is the unnamed product
\* self._phasor * (-1) that "_inv_phasor" is built on.
TriBuilt == {"_phasor", "_neg", "_inv_phasor", "_min", "_output"}

\* The four the instance holds in attributes of its own.
TriInternal == {"_phasor", "_inv_phasor", "_min", "_output"}

BrkBuilt == {"_phasor", "_output"}

Objects(k) == (IF k = "TriOsc" THEN TriBuilt ELSE BrkBuilt) \cup {"lfo"}

\* The Sig that BrkPntOsc.__init__ wraps the breakpoint in, and the Phasor
\* both constructors build: the objects the signal graph is wired to.
BreakpointBuilt == 1

PhasorBuilt == 1

VARIABLES
    kind,        \* the class of the instance: "BrkPntOsc" or "TriOsc"
    freq,        \* self._freq
    phase,       \* self._phase
    breakpoint,  \* self._breakpoint: the Sig it refers to (0: TriOsc has none)
    sigs,        \* the breakpoint Sig objects created so far: their values
    phasor,      \* self._phasor: the Phasor it refers to
    phasors,     \* the Phasor objects created so far: [freq, phase, pos]
    act,         \* activation of every signal object
    lfo_out,     \* the current output of the caller's lfo
    calls,       \* the calls the last play/stop/out made, in order
    last,        \* the last operation ("env": the engine or the lfo's owner)
    h_brk        \* the last breakpoint argument (constructor or setBrkPnt)

vars == <<kind, freq, phase, breakpoint, sigs, phasor, phasors,
          act, lfo_out, calls, last, h_brk>>

\* The number an argument stands for while the lfo outputs lo.
CurOf(x, lo) == IF x.sig = "" THEN x.val ELSE lo

Cur(x) == CurOf(x, lfo_out)

\* ------------------------------------------------------- the signal graph
\* Phasor: the ramp position plus the phase offset, wrapped into [0, 1).
PhasorOutOf(phs, lo) ==
    LET ph == phs[PhasorBuilt]
    IN  RNorm((ph.pos + CurOf(ph.phase, lo)) % N, N)

PhasorOut == PhasorOutOf(phasors, lfo_out)

\* The breakpoint signal's value.
BreakpointOutOf(sgs, lo) == RNorm(CurOf(sgs[BreakpointBuilt], lo), N)

BreakpointOut == BreakpointOutOf(sigs, lfo_out)

Invbrk(b) == RSub(One, b)

\* Rising with the mask taken as phasor <= breakpoint.
Rising_MaskLeq(p, b) == RMul(RDiv(p, b), IF RLeq(p, b) THEN One ELSE Zero)

Rising(p, b) == RMul(RDiv(p, b), MaskLt(p, b))

\* Falling without the "+ 1" that turns the ramp into a descent from 1.
Falling_NoOffset(p, b) ==
    RMul(RMul(RDiv(RSub(p, b), Invbrk(b)), MinusOne), MaskGe(p, b))

Falling(p, b) ==
    RMul(RAdd(RMul(RDiv(RSub(p, b), Invbrk(b)), MinusOne), One), MaskGe(p, b))

BrkRaw(p, b) == RAdd(Rising(p, b), Falling(p, b))

Osc(p, b) == RAdd(RMul(BrkRaw(p, b), RInt(2)), MinusOne)

\* The inverse phasor without its "+ 1".
InvPhasor_NoOffset(p) == RMul(p, MinusOne)

InvPhasor(p) == RAdd(RMul(p, MinusOne), One)

TriRaw(p) == RMin(p, InvPhasor(p))

TriMin(p) == RAdd(RMul(TriRaw(p), RInt(4)), MinusOne)

\* The waveform of the instance before the post multiply/add.
WaveOf(k, phs, sgs, lo) ==
    IF k = "TriOsc" THEN TriMin(PhasorOutOf(phs, lo))
    ELSE Osc(PhasorOutOf(phs, lo), BreakpointOutOf(sgs, lo))

Wave == WaveOf(kind, phasors, sigs, lfo_out)

\* ----------------------------------------------------------- construction
NewPhasor(f, ph) == [freq |-> f, phase |-> ph, pos |-> 0]

BrkInit ==
    \E f \in FreqArgs, ph \in PhaseArgs, b \in BrkArgs :
        /\ kind = "BrkPntOsc"
        /\ freq = f /\ phase = ph
        /\ sigs = <<b>>
        /\ breakpoint = 1
        /\ phasors = <<NewPhasor(f, ph)>>
        /\ phasor = 1
        /\ act = [o \in Objects("BrkPntOsc") |-> Created]
        /\ h_brk = b

TriInit ==
    \E f \in FreqArgs, ph \in PhaseArgs :
        /\ kind = "TriOsc"
        /\ freq = f /\ phase = ph
        /\ sigs = <<>>
        /\ breakpoint = 0
        /\ phasors = <<NewPhasor(f, ph)>>
        /\ phasor = 1
        /\ act = [o \in Objects("TriOsc") |-> Created]
        /\ h_brk = Const(0)

Init ==
    /\ BrkInit \/ TriInit
    /\ lfo_out \in LfoVals
    /\ calls = <<>>
    /\ last = "init"

\* setFreq building a new Phasor in place of handing the value to the old one.
BrkSetFreq_Rebuild ==
    /\ kind = "BrkPntOsc"
    /\ \E x \in FreqArgs :
        /\ freq' = x
        /\ phasors' = [phasors EXCEPT ![phasor] = NewPhasor(x, phase)]
    /\ last' = "setFreq"
    /\ UNCHANGED <<kind, phase, breakpoint, sigs, phasor, act,
                   lfo_out, calls, h_brk>>

\* ------------------------------------------------- BrkPntOsc operations
\* BrkPntOsc.setFreq: self._freq = freq; self._phasor.setFreq(self._freq)
BrkSetFreq ==
    /\ kind = "BrkPntOsc"
    /\ \E x \in FreqArgs :
        /\ freq' = x
        /\ phasors' = [phasors EXCEPT ![phasor].freq = x]
    /\ last' = "setFreq"
    /\ UNCHANGED <<kind, phase, breakpoint, sigs, phasor, act,
                   lfo_out, calls, h_brk>>

\* BrkPntOsc.setPhase: self._phase = phase; self._phasor.setPhase(self._phase)
BrkSetPhase ==
    /\ kind = "BrkPntOsc"
    /\ \E x \in PhaseArgs :
        /\ phase' = x
        /\ phasors' = [phasors EXCEPT ![phasor].phase = x]
    /\ last' = "setPhase"
    /\ UNCHANGED <<kind, freq, breakpoint, sigs, phasor, act,
                   lfo_out, calls, h_brk>>

\* setBrkPnt binding the attribute to a new Sig: self._breakpoint = Sig(brkpnt)
SetBrkPnt_Rebind ==
    /\ kind = "BrkPntOsc"
    /\ \E x \in BrkArgs :
        /\ sigs' = <<sigs[1], x>>
        /\ h_brk' = x
    /\ breakpoint' = 2
    /\ last' = "setBrkPnt"
    /\ UNCHANGED <<kind, freq, phase, phasor, phasors, act, lfo_out, calls>>

\* setBrkPnt raising on a breakpoint outside (0, 1).
SetBrkPnt_Guarded ==
    /\ kind = "BrkPntOsc"
    /\ \E x \in BrkArgs :
        /\ h_brk' = x
        /\ IF x.sig = "" /\ x.val \in {0, N}
           THEN sigs' = sigs /\ last' = "error"
           ELSE sigs' = [sigs EXCEPT ![breakpoint] = x] /\ last' = "setBrkPnt"
    /\ UNCHANGED <<kind, freq, phase, breakpoint, phasor, phasors,
                   act, lfo_out, calls>>

\* BrkPntOsc.setBrkPnt (and the breakpoint property setter, which calls it):
\* self._breakpoint.setValue(brkpnt)
SetBrkPnt ==
    /\ kind = "BrkPntOsc"
    /\ \E x \in BrkArgs :
        /\ sigs' = [sigs EXCEPT ![breakpoint] = x]
        /\ h_brk' = x
    /\ last' = "setBrkPnt"
    /\ UNCHANGED <<kind, freq, phase, breakpoint, phasor, phasors,
                   act, lfo_out, calls>>

\* ---------------------------------------------------- TriOsc operations
\* TriOsc.setFreq: self._freq = x; self._phasor.freq = x
TriSetFreq ==
    /\ kind = "TriOsc"
    /\ \E x \in FreqArgs :
        /\ freq' = x
        /\ phasors' = [phasors EXCEPT ![phasor].freq = x]
    /\ last' = "setFreq"
    /\ UNCHANGED <<kind, phase, breakpoint, sigs, phasor, act,
                   lfo_out, calls, h_brk>>

\* TriOsc.setPhase: self._phase = x; self._phasor.phase = x
TriSetPhase ==
    /\ kind = "TriOsc"
    /\ \E x \in PhaseArgs :
        /\ phase' = x
        /\ phasors' = [phasors EXCEPT ![phasor].phase = x]
    /\ last' = "setPhase"
    /\ UNCHANGED <<kind, freq, breakpoint, sigs, phasor, act,
                   lfo_out, calls, h_brk>>

\* self.__dict__.keys() of a TriOsc: the attributes TriOsc.__init__ sets, in
\* the order it sets them.
DictKeys ==
    <<"_freq", "_phase", "_phasor", "_inv_phasor", "_min", "_output",
      "_base_objs">>

\* The loop acting only on the objects the instance built.
IsPyoObject_InternalOnly(key) == key \in TriInternal

\* isinstance(self.__dict__[key], PyoObject)
IsPyoObject(key) ==
    CASE key = "_freq" -> freq.sig # ""
      [] key = "_phase" -> phase.sig # ""
      [] key \in TriInternal -> TRUE
      [] OTHER -> FALSE

\* The signal object an attribute holds.
Held(key) == IF key \in TriInternal THEN key ELSE "lfo"

\* No cascade: only the output object is reached.
PyoObjectKeys_OutputOnly == <<"_output">>

\* The keys the loop of play/stop/out acts on.
PyoObjectKeys == SelectSeq(DictKeys, IsPyoObject)

Call(target, op, dur, delay, chnl, inc) ==
    [target |-> target, op |-> op, dur |-> dur, delay |-> delay,
     chnl |-> chnl, inc |-> inc]

\* for key in self.__dict__.keys(): ... self.__dict__[key].<op>(...)
Cascade(op, dur, delay) ==
    [i \in 1 .. Len(PyoObjectKeys) |->
        Call(Held(PyoObjectKeys[i]), op, dur, delay, -1, -1)]

\* PyoObject.<op>(self, ...): the base class acts on self._base_objs, the
\* base objects of self._output.
BaseCall(op, dur, delay, chnl, inc) ==
    Call("_base_objs", op, dur, delay, chnl, inc)

Receiver(c) == IF c.target = "_base_objs" THEN "_output" ELSE c.target

RECURSIVE ApplyCalls(_, _)
ApplyCalls(a, cs) ==
    IF cs = <<>> THEN a
    ELSE LET c == Head(cs)
         IN  ApplyCalls(
                [a EXCEPT ![Receiver(c)] = Activation(c.op, c.dur, c.delay)],
                Tail(cs))

\* TriOsc.play(dur, delay)
TriPlay ==
    /\ kind = "TriOsc"
    /\ \E dur \in Durs, delay \in Delays :
        LET cs == Cascade("play", dur, delay)
                    \o <<BaseCall("play", dur, delay, -1, -1)>>
        IN  /\ calls' = cs
            /\ act' = ApplyCalls(act, cs)
    /\ last' = "play"
    /\ UNCHANGED <<kind, freq, phase, breakpoint, sigs, phasor,
                   phasors, lfo_out, h_brk>>

\* TriOsc.stop()
TriStop ==
    /\ kind = "TriOsc"
    /\ LET cs == Cascade("stop", 0, 0) \o <<BaseCall("stop", 0, 0, -1, -1)>>
       IN  /\ calls' = cs
           /\ act' = ApplyCalls(act, cs)
    /\ last' = "stop"
    /\ UNCHANGED <<kind, freq, phase, breakpoint, sigs, phasor,
                   phasors, lfo_out, h_brk>>

\* TriOsc.out(chnl, inc, dur, delay)
TriOut ==
    /\ kind = "TriOsc"
    /\ \E chnl \in Chnls, inc \in Incs, dur \in Durs, delay \in Delays :
        LET cs == Cascade("play", dur, delay)
                    \o <<BaseCall("out", dur, delay, chnl, inc)>>
        IN  /\ calls' = cs
            /\ act' = ApplyCalls(act, cs)
    /\ last' = "out"
    /\ UNCHANGED <<kind, freq, phase, breakpoint, sigs, phasor,
                   phasors, lfo_out, h_brk>>

\* ------------------------------------------------------ the environment
\* The engine processes one sample: a playing Phasor advances its ramp by
\* its frequency.
Tick ==
    /\ act["_phasor"].mode # "stop"
    /\ LET ph == phasors[PhasorBuilt]
       IN  phasors' = [phasors EXCEPT
                          ![PhasorBuilt].pos = (ph.pos + Cur(ph.freq) + N) % N]
    /\ last' = "env"
    /\ UNCHANGED <<kind, freq, phase, breakpoint, sigs, phasor, act,
                   lfo_out, calls, h_brk>>

\* The caller's lfo moves to another output value.
LfoStep ==
    /\ \E v \in LfoVals \ {lfo_out} : lfo_out' = v
    /\ last' = "env"
    /\ UNCHANGED <<kind, freq, phase, breakpoint, sigs, phasor,
                   phasors, act, calls, h_brk>>

\* The caller starts or stops the lfo itself.
LfoPlay ==
    /\ act' = [act EXCEPT !["lfo"] = Activation("play", 0, 0)]
    /\ last' = "env"
    /\ UNCHANGED <<kind, freq, phase, breakpoint, sigs, phasor,
                   phasors, lfo_out, calls, h_brk>>

LfoStop ==
    /\ act' = [act EXCEPT !["lfo"] = Activation("stop", 0, 0)]
    /\ last' = "env"
    /\ UNCHANGED <<kind, freq, phase, breakpoint, sigs, phasor,
                   phasors, lfo_out, calls, h_brk>>

Next ==
    \/ BrkSetFreq
    \/ BrkSetPhase
    \/ SetBrkPnt
    \/ TriSetFreq
    \/ TriSetPhase
    \/ TriPlay
    \/ TriStop
    \/ TriOut
    \/ Tick
    \/ LfoStep
    \/ LfoPlay
    \/ LfoStop

Spec == Init /\ [][Next]_vars

\* ================================================================ claims
\* What the claims read off the instance under test.
IsBrk == kind = "BrkPntOsc"

IsTri == kind = "TriOsc"

InOpenUnit(b) == RLess(Zero, b) /\ RLess(b, One)

\* The closed form of the breakpoint waveform, as the specification gives it.
Piecewise(p, b) ==
    IF RLess(p, b) THEN RDiv(p, b)
    ELSE RSub(One, RDiv(RSub(p, b), RSub(One, b)))

\* C1: for every phasor value p and every breakpoint b in (0,1) the raw
\* BrkPntOsc waveform (rising + falling) is p/b below the breakpoint and
\* 1-(p-b)/(1-b) from it on, exactly one of the two masked segments
\* contributes, and the rescaled output is 2*raw-1 (b=1/2, p=1/4: raw 1/2,
\* output 0).
C1_RawIsPiecewise ==
    LET p == PhasorOut
        b == BreakpointOut
    IN  (IsBrk /\ InOpenUnit(b)) =>
            /\ BrkRaw(p, b) = Piecewise(p, b)
            /\ RAdd(MaskLt(p, b), MaskGe(p, b)) = One
            /\ RLess(p, b) => (Rising(p, b) = BrkRaw(p, b) /\ Falling(p, b) = Zero)
            /\ ~RLess(p, b) => (Falling(p, b) = BrkRaw(p, b) /\ Rising(p, b) = Zero)
            /\ Osc(p, b) = RSub(RMul(RInt(2), Piecewise(p, b)), One)
            /\ (b = Half /\ p = <<1, 4>>) => (BrkRaw(p, b) = Half /\ Osc(p, b) = Zero)

\* C1 witness: the ramp has advanced to the breakpoint itself, where the
\* falling segment takes over at its top value 1.
C1_Witness ==
    /\ IsBrk /\ last = "env"
    /\ InOpenUnit(BreakpointOut)
    /\ PhasorOut = BreakpointOut
    /\ BrkRaw(PhasorOut, BreakpointOut) = One

\* C2: for every phasor value p the TriOsc raw value is min(p, 1-p), lies in
\* [0, 1/2], is 0 at p = 0 and is 1/2 exactly at p = 1/2; the output before
\* the post multiply/add is 4*raw-1.
C2_TriRawIsMin ==
    LET p == PhasorOut
        r == TriRaw(p)
    IN  IsTri =>
            /\ r = (IF RLeq(p, RSub(One, p)) THEN p ELSE RSub(One, p))
            /\ RLeq(Zero, r) /\ RLeq(r, Half)
            /\ (p = Zero) => (r = Zero)
            /\ (r = Half) <=> (p = Half)
            /\ TriMin(p) = RSub(RMul(RInt(4), r), One)

\* C2 witness: the ramp has reached p = 1/2, the peak of the triangle.
C2_Witness ==
    /\ IsTri /\ last = "env"
    /\ PhasorOut = Half
    /\ TriRaw(PhasorOut) = Half
    /\ TriMin(PhasorOut) = One

\* C3: with breakpoint 1/2 the BrkPntOsc output before the post multiply/add
\* equals the TriOsc output before the post multiply/add at the same phasor
\* value, for every phasor value.
C3_HalfBreakpointIsTriangle ==
    (IsBrk /\ BreakpointOut = Half) =>
        Osc(PhasorOut, BreakpointOut) = TriMin(PhasorOut)

\* C3 witness: breakpoint 1/2 and the ramp on the falling side, at 3/4.
C3_Witness ==
    /\ IsBrk /\ last = "env"
    /\ BreakpointOut = Half
    /\ PhasorOut = <<3, 4>>
    /\ Osc(PhasorOut, BreakpointOut) = Zero

\* The activation an internal object must show after the handler whose
\* base-class call is c.
Cascaded(c) ==
    IF c.op = "stop" THEN Activation("stop", 0, 0)
    ELSE Activation("play", c.dur, c.delay)

\* C4: TriOsc.play, stop and out first apply the activation change (play
\* with the same dur and delay for play and out, stop for stop) to each of
\* phasor, inverse, min-combinator and output and only then call the base
\* class; after play or out the four are active, after stop inactive, in any
\* sequence of these calls.
C4_CascadeThenBase ==
    (IsTri /\ calls # <<>>) =>
        LET n == Len(calls)
            base == calls[n]
        IN  /\ base.target = "_base_objs"
            /\ base.op = last \/ last \in {"setFreq", "setPhase", "env"}
            /\ \A i \in 1 .. n - 1 : calls[i].target # "_base_objs"
            /\ \A o \in TriInternal :
                /\ \E i \in 1 .. n - 1 :
                    /\ calls[i].target = o
                    /\ Activation(calls[i].op, calls[i].dur, calls[i].delay)
                         = Cascaded(base)
                /\ act[o].dur = base.dur /\ act[o].delay = base.delay
                /\ (base.op = "stop") <=> (act[o].mode = "stop")
                /\ (base.op # "stop") <=> (act[o].mode \in {"play", "out"})

\* C4 witness: play(1, 1) has restarted an instance that was stopped or
\* routed: the phasor and the min-combinator run with that timing.
C4_Witness ==
    /\ IsTri /\ last = "play"
    /\ act["_phasor"] = Activation("play", 1, 1)
    /\ act["_min"] = Activation("play", 1, 1)
    /\ act["_output"] = Activation("play", 1, 1)

\* C5: setBrkPnt updates the value of the breakpoint Sig built by the
\* constructor and never replaces the object: the attribute refers to the
\* Sig the rising, falling and inverse-breakpoint signals are wired to, no
\* other Sig exists, and that Sig holds the latest value given.
C5_BreakpointUpdatedInPlace ==
    IsBrk =>
        /\ breakpoint = BreakpointBuilt
        /\ Len(sigs) = 1
        /\ sigs[BreakpointBuilt] = h_brk
        /\ BreakpointOut = RNorm(Cur(h_brk), N)

\* C5 witness: setBrkPnt(1/4) has acted and the graph reads 1/4.
C5_Witness ==
    /\ IsBrk /\ last = "setBrkPnt"
    /\ h_brk = Const(G \div 2)
    /\ BreakpointOut = RNorm(G \div 2, N)

\* C6: in every reachable state of a BrkPntOsc the current breakpoint value
\* lies strictly between 0 and 1.
C6_BreakpointInOpenUnit == IsBrk => InOpenUnit(BreakpointOut)

SetterStep == last' \in {"setFreq", "setPhase", "setBrkPnt"}

SetterKeepsRamp ==
    /\ phasor' = phasor /\ phasor' = PhasorBuilt
    /\ Len(phasors') = Len(phasors)
    /\ phasors'[PhasorBuilt].pos = phasors[PhasorBuilt].pos
    /\ freq' = phasors'[PhasorBuilt].freq
    /\ phase' = phasors'[PhasorBuilt].phase
    /\ IsBrk => sigs'[BreakpointBuilt] = h_brk'

\* The waveform value right after the step.
WaveAfter == WaveOf(kind', phasors', sigs', lfo_out')

LfoHeld == freq.sig = "lfo" \/ phase.sig = "lfo"

CascadeStep == IsTri /\ last' \in {"play", "stop", "out"}

\* C10 as stated: TriOsc.play, stop and out change the activation only of
\* the objects the instance built; a signal object the caller supplied as
\* freq or phase keeps its activation state.
C10_CallerObjectsUntouched ==
    [][CascadeStep => act'["lfo"] = act["lfo"]]_vars

\* C10 amended: play, stop and out act on every signal object held in an
\* attribute of the instance: a caller's object held as freq or phase is
\* played or stopped with the internal ones; it keeps its state once it is
\* no longer held (replaced through setFreq/setPhase) or was never given;
\* the unnamed product the inverse is built on is never reached.
C10_OnlyHeldObjectsTouched ==
    [][CascadeStep =>
        /\ LfoHeld => act'["lfo"] = Cascaded(calls'[Len(calls')])
        /\ ~LfoHeld => act'["lfo"] = act["lfo"]
        /\ act'["_neg"] = act["_neg"]]_vars

\* C10 witness: stop() has acted on an instance whose freq was replaced by
\* a float while its phase is still the caller's lfo, and the lfo is stopped.
C10_Witness ==
    /\ IsTri /\ last = "stop"
    /\ freq.sig = "" /\ phase.sig = "lfo"
    /\ act["lfo"].mode = "stop"
    /\ act["_neg"].mode = "play"

====
